---- MODULE Spec2Model ----
(***************************************************************************)
(* Model of the two rate limiters of this repository:                      *)
(*   SlidingWindowRateLimiter  (src/sliding_window_rate_limiter.py)        *)
(*   ThrottlingRateLimiter     (src/throttling_rate_limiter.py)            *)
(*                                                                         *)
(* Time is counted in integer clock ticks; time.time() is the variable     *)
(* clock, which never decreases.  One limiter object is constructed in     *)
(* Init (of either class, with any configuration within the bounds) and    *)
(* the callers then invoke its three methods in any order, for any user.   *)
(* record_message reads the clock twice (once inside can_send_message,     *)
(* once for the stored timestamp); the clock may advance between the two   *)
(* readings by up to MaxDrift ticks.                                       *)
(***************************************************************************)
EXTENDS Integers, Sequences, FiniteSets, TLC

\* ---------------------------------------------------------------- bounds
MaxTime == 3
MaxWindow == 2
MaxRequests == 2
MaxInterval == 2
MaxDrift == 1
MaxAccepted == 4

Users == {"1", "2"}
Times == 0..MaxTime

VARIABLES
    limiter,            \* class of the constructed object
    window_size,        \* SlidingWindowRateLimiter.window_size
    max_requests,       \* SlidingWindowRateLimiter.max_requests
    user_history,       \* SlidingWindowRateLimiter.user_history: user -> deque
    min_interval,       \* ThrottlingRateLimiter.min_interval
    last_message_time,  \* ThrottlingRateLimiter.last_message_time: user -> time
    clock,              \* the value time.time() returns now
    call,               \* the method call that has just returned, and what it returned
    pre_history,        \* user_history as it was when that call started
    pre_last,           \* last_message_time as it was when that call started
    accepted,           \* history: per user, the timestamps stored by accepted record_message calls
    threads,            \* concurrent callers: where each is inside record_message
    raced               \* history: two admission checks for one user ran before either store

vars == <<limiter, window_size, max_requests, user_history, min_interval,
          last_message_time, clock, call, pre_history, pre_last, accepted,
          threads, raced>>

\* ------------------------------------------------------- mapping helpers
\* The empty dict {}.
EmptyDict == [u \in {} |-> 0]

\* del d[u]
DictDel(d, u) == [v \in (DOMAIN d) \ {u} |-> d[v]]

\* d[u] = x, creating the key when absent
DictSet(d, u, x) == [v \in (DOMAIN d) \cup {u} |-> IF v = u THEN x ELSE d[v]]

\* d.get(u, dflt)
DictGet(d, u, dflt) == IF u \in DOMAIN d THEN d[u] ELSE dflt

\* max(0.0, x)
Max0(x) == IF x > 0 THEN x ELSE 0

\* Sum of the lengths of the sequences f[v], v in us (MaxAccepted caps the
\* number of accepted record_message calls explored, all users together).
RECURSIVE TotalLen(_, _)
TotalLen(f, us) ==
    IF us = {} THEN 0
    ELSE LET v == CHOOSE x \in us : TRUE
         IN  Len(f[v]) + TotalLen(f, us \ {v})

\* ------------------------------------------- SlidingWindowRateLimiter
\* The while loop of _cleanup_window: popleft while the head is older than
\* current_time - window_size.
\* Variant: an if in place of the while (at most one timestamp is removed).
PopStale_once(q, bound) ==
    IF q # <<>> /\ Head(q) < bound THEN Tail(q) ELSE q

\* Variant: the loop tests the head but never removes it.
PopStale_never(q, bound) ==
    q

\* Variant: <= in place of < (a timestamp exactly window_size old is removed).
RECURSIVE PopStale_le(_, _)
PopStale_le(q, bound) ==
    IF q # <<>> /\ Head(q) <= bound THEN PopStale_le(Tail(q), bound) ELSE q

RECURSIVE PopStale(_, _)
PopStale(q, bound) ==
    IF q # <<>> /\ Head(q) < bound THEN PopStale(Tail(q), bound) ELSE q

\* Variant: the pass removes the outdated requests of every user.
cleanup_window_all(h, W, user_id, current_time) ==
    IF user_id \notin DOMAIN h
    THEN h
    ELSE [v \in {x \in DOMAIN h : PopStale(h[x], current_time - W) # <<>>} |->
             PopStale(h[v], current_time - W)]

\* Variant: the emptied deque is left in the dict (no del).
cleanup_window_keep_empty(h, W, user_id, current_time) ==
    IF user_id \notin DOMAIN h
    THEN h
    ELSE DictSet(h, user_id, PopStale(h[user_id], current_time - W))

\* _cleanup_window(user_id, current_time): the user_history it leaves.
cleanup_window(h, W, user_id, current_time) ==
    IF user_id \notin DOMAIN h
    THEN h
    ELSE LET q == PopStale(h[user_id], current_time - W)
         IN  IF q = <<>> THEN DictDel(h, user_id) ELSE DictSet(h, user_id, q)

\* Variant: <= in place of < (one request too many is admitted).
SW_allowed_le(h, N, user_id) ==
    Len(DictGet(h, user_id, <<>>)) <= N

\* The value can_send_message returns, given the cleaned user_history.
SW_allowed(h, N, user_id) ==
    Len(DictGet(h, user_id, <<>>)) < N

\* can_send_message(user_id) at clock reading t: <<returned value, user_history left>>
SW_can_send_message(h, W, N, user_id, t) ==
    LET h1 == cleanup_window(h, W, user_id, t)
    IN  <<SW_allowed(h1, N, user_id), h1>>

\* Variant: the timestamp is appended before the result of the check is looked at.
SW_record_message_unchecked(h, W, N, user_id, t1, t2) ==
    LET c == SW_can_send_message(h, W, N, user_id, t1)
    IN  <<c[1], DictSet(c[2], user_id, Append(DictGet(c[2], user_id, <<>>), t2))>>

\* Variant: appendleft in place of append.
SW_record_message_appendleft(h, W, N, user_id, t1, t2) ==
    LET c == SW_can_send_message(h, W, N, user_id, t1)
    IN  IF c[1]
        THEN <<TRUE, DictSet(c[2], user_id, <<t2>> \o DictGet(c[2], user_id, <<>>))>>
        ELSE <<FALSE, c[2]>>

\* record_message(user_id); t1 is the clock reading inside can_send_message,
\* t2 the reading stored: <<returned value, user_history left>>
SW_record_message(h, W, N, user_id, t1, t2) ==
    LET c == SW_can_send_message(h, W, N, user_id, t1)
    IN  IF c[1]
        THEN <<TRUE, DictSet(c[2], user_id, Append(DictGet(c[2], user_id, <<>>), t2))>>
        ELSE <<FALSE, c[2]>>

\* Variant: the elapsed time is returned in place of the remaining time.
SW_time_until_next_allowed_elapsed(h, W, N, user_id, t) ==
    LET h1 == cleanup_window(h, W, user_id, t)
    IN  IF user_id \notin DOMAIN h1 \/ Len(h1[user_id]) < N
        THEN <<0, h1>>
        ELSE <<Max0(t - h1[user_id][1]), h1>>

\* Variant: the operands of the inner subtraction are swapped.
SW_time_until_next_allowed_swapped(h, W, N, user_id, t) ==
    LET h1 == cleanup_window(h, W, user_id, t)
    IN  IF user_id \notin DOMAIN h1 \/ Len(h1[user_id]) < N
        THEN <<0, h1>>
        ELSE <<Max0(W - (h1[user_id][1] - t)), h1>>

\* The branch of record_message taken after can_send_message returned True:
\* the deque is created if absent and the clock reading t2 appended.
SW_store(h, user_id, t2) ==
    DictSet(h, user_id, Append(DictGet(h, user_id, <<>>), t2))

\* time_until_next_allowed(user_id) at clock reading t: <<returned value, user_history left>>
SW_time_until_next_allowed(h, W, N, user_id, t) ==
    LET h1 == cleanup_window(h, W, user_id, t)
    IN  IF user_id \notin DOMAIN h1 \/ Len(h1[user_id]) < N
        THEN <<0, h1>>
        ELSE <<Max0(W - (t - h1[user_id][1])), h1>>

\* ---------------------------------------------- ThrottlingRateLimiter
\* Variant: > in place of >= (a request exactly min_interval later is refused).
TH_can_send_message_gt(l, I, user_id, t) ==
    t - DictGet(l, user_id, 0) > I

\* Variant: the stored time of the user is not looked up (the default is used).
TH_can_send_message_default(l, I, user_id, t) ==
    t - 0 >= I

\* can_send_message(user_id) at clock reading t.
TH_can_send_message(l, I, user_id, t) ==
    t - DictGet(l, user_id, 0) >= I

\* record_message(user_id): <<returned value, last_message_time left>>
TH_record_message(l, I, user_id, t1, t2) ==
    IF TH_can_send_message(l, I, user_id, t1)
    THEN <<TRUE, DictSet(l, user_id, t2)>>
    ELSE <<FALSE, l>>

\* The branch of record_message taken after can_send_message returned True.
TH_store(l, user_id, t2) ==
    DictSet(l, user_id, t2)

\* Variant: the max(0.0, ...) is missing.
TH_time_until_next_allowed_raw(l, I, user_id, t) ==
    I - (t - DictGet(l, user_id, 0))

\* time_until_next_allowed(user_id) at clock reading t.
TH_time_until_next_allowed(l, I, user_id, t) ==
    Max0(I - (t - DictGet(l, user_id, 0)))

\* ------------------------------------------------------------ the system
NoCall == [name |-> "none", user |-> "", t1 |-> 0, t2 |-> 0, ret |-> FALSE, wait |-> 0]

\* The callers of the concurrent deployment, and a caller outside record_message.
Threads == {"a", "b"}
Idle == [pc |-> "idle", user |-> ""]

\* __init__ of either class.
Init ==
    /\ limiter \in {"SlidingWindowRateLimiter", "ThrottlingRateLimiter"}
    /\ IF limiter = "SlidingWindowRateLimiter"
       THEN /\ window_size \in 1..MaxWindow
            /\ max_requests \in 0..MaxRequests
            /\ min_interval = 0
       ELSE /\ window_size = 0
            /\ max_requests = 0
            /\ min_interval \in 0..MaxInterval
    /\ user_history = EmptyDict
    /\ last_message_time = EmptyDict
    /\ clock = 0
    /\ call = NoCall
    /\ pre_history = EmptyDict
    /\ pre_last = EmptyDict
    /\ accepted = [u \in Users |-> <<>>]
    /\ threads = [th \in Threads |-> Idle]
    /\ raced = FALSE

\* Time passes between two calls (time.sleep in the callers); no call has
\* just returned.
Tick ==
    /\ clock < MaxTime
    /\ clock' = clock + 1
    /\ call' = NoCall
    /\ pre_history' = user_history
    /\ pre_last' = last_message_time
    /\ UNCHANGED <<limiter, window_size, max_requests, user_history, min_interval,
                   last_message_time, accepted>>
    /\ UNCHANGED <<threads, raced>>

SlidingCanSend(u) ==
    /\ limiter = "SlidingWindowRateLimiter"
    /\ LET r == SW_can_send_message(user_history, window_size, max_requests, u, clock)
       IN  /\ user_history' = r[2]
           /\ call' = [name |-> "can_send_message", user |-> u, t1 |-> clock,
                       t2 |-> clock, ret |-> r[1], wait |-> 0]
    /\ pre_history' = user_history
    /\ pre_last' = last_message_time
    /\ UNCHANGED <<limiter, window_size, max_requests, min_interval,
                   last_message_time, clock, accepted>>
    /\ UNCHANGED <<threads, raced>>

SlidingRecord(u) ==
    /\ limiter = "SlidingWindowRateLimiter"
    /\ TotalLen(accepted, Users) < MaxAccepted
    /\ \E d \in 0..MaxDrift :
        /\ clock + d <= MaxTime
        /\ LET r == SW_record_message(user_history, window_size, max_requests,
                                      u, clock, clock + d)
           IN  /\ user_history' = r[2]
               /\ call' = [name |-> "record_message", user |-> u, t1 |-> clock,
                           t2 |-> clock + d, ret |-> r[1], wait |-> 0]
               /\ accepted' = IF r[1]
                              THEN [accepted EXCEPT ![u] = Append(@, clock + d)]
                              ELSE accepted
        /\ clock' = clock + d
    /\ pre_history' = user_history
    /\ pre_last' = last_message_time
    /\ UNCHANGED <<limiter, window_size, max_requests, min_interval,
                   last_message_time>>
    /\ UNCHANGED <<threads, raced>>

SlidingTimeUntil(u) ==
    /\ limiter = "SlidingWindowRateLimiter"
    /\ LET r == SW_time_until_next_allowed(user_history, window_size, max_requests,
                                           u, clock)
       IN  /\ user_history' = r[2]
           /\ call' = [name |-> "time_until_next_allowed", user |-> u, t1 |-> clock,
                       t2 |-> clock, ret |-> FALSE, wait |-> r[1]]
    /\ pre_history' = user_history
    /\ pre_last' = last_message_time
    /\ UNCHANGED <<limiter, window_size, max_requests, min_interval,
                   last_message_time, clock, accepted>>
    /\ UNCHANGED <<threads, raced>>

ThrottleCanSend(u) ==
    /\ limiter = "ThrottlingRateLimiter"
    /\ call' = [name |-> "can_send_message", user |-> u, t1 |-> clock, t2 |-> clock,
                ret |-> TH_can_send_message(last_message_time, min_interval, u, clock),
                wait |-> 0]
    /\ pre_history' = user_history
    /\ pre_last' = last_message_time
    /\ UNCHANGED <<limiter, window_size, max_requests, user_history, min_interval,
                   last_message_time, clock, accepted>>
    /\ UNCHANGED <<threads, raced>>

ThrottleRecord(u) ==
    /\ limiter = "ThrottlingRateLimiter"
    /\ TotalLen(accepted, Users) < MaxAccepted
    /\ \E d \in 0..MaxDrift :
        /\ clock + d <= MaxTime
        /\ LET r == TH_record_message(last_message_time, min_interval, u,
                                      clock, clock + d)
           IN  /\ last_message_time' = r[2]
               /\ call' = [name |-> "record_message", user |-> u, t1 |-> clock,
                           t2 |-> clock + d, ret |-> r[1], wait |-> 0]
               /\ accepted' = IF r[1]
                              THEN [accepted EXCEPT ![u] = Append(@, clock + d)]
                              ELSE accepted
        /\ clock' = clock + d
    /\ pre_history' = user_history
    /\ pre_last' = last_message_time
    /\ UNCHANGED <<limiter, window_size, max_requests, user_history, min_interval>>
    /\ UNCHANGED <<threads, raced>>

ThrottleTimeUntil(u) ==
    /\ limiter = "ThrottlingRateLimiter"
    /\ call' = [name |-> "time_until_next_allowed", user |-> u, t1 |-> clock,
                t2 |-> clock, ret |-> FALSE,
                wait |-> TH_time_until_next_allowed(last_message_time, min_interval,
                                                    u, clock)]
    /\ pre_history' = user_history
    /\ pre_last' = last_message_time
    /\ UNCHANGED <<limiter, window_size, max_requests, user_history, min_interval,
                   last_message_time, clock, accepted>>
    /\ UNCHANGED <<threads, raced>>

Next ==
    \/ Tick
    \/ \E u \in Users : SlidingCanSend(u)
    \/ \E u \in Users : SlidingRecord(u)
    \/ \E u \in Users : SlidingTimeUntil(u)
    \/ \E u \in Users : ThrottleCanSend(u)
    \/ \E u \in Users : ThrottleRecord(u)
    \/ \E u \in Users : ThrottleTimeUntil(u)

Spec == Init /\ [][Next]_vars

\* ------------------------------------------- unserialized record_message
\* Two callers run record_message on the same limiter without a lock.  Each
\* call is two steps, as in the code: the admission check (can_send_message,
\* with its cleanup and its own clock reading), then the store with a second
\* clock reading.  Steps of the two callers interleave freely, and time may
\* pass between any two steps.
OtherAdmitted(th, u) ==
    \E o \in Threads \ {th} : threads[o].pc = "admitted" /\ threads[o].user = u

RaceTick ==
    /\ clock < MaxTime
    /\ clock' = clock + 1
    /\ UNCHANGED <<limiter, window_size, max_requests, user_history, min_interval,
                   last_message_time, call, pre_history, pre_last, accepted,
                   threads, raced>>

SlidingRaceCheck(th, u) ==
    /\ limiter = "SlidingWindowRateLimiter"
    /\ threads[th].pc = "idle"
    /\ TotalLen(accepted, Users) < MaxAccepted
    /\ LET r == SW_can_send_message(user_history, window_size, max_requests, u, clock)
       IN  /\ user_history' = r[2]
           /\ threads' = [threads EXCEPT ![th] =
                             IF r[1] THEN [pc |-> "admitted", user |-> u] ELSE Idle]
           /\ raced' = (raced \/ (r[1] /\ OtherAdmitted(th, u)))
    /\ UNCHANGED <<limiter, window_size, max_requests, min_interval,
                   last_message_time, clock, call, pre_history, pre_last, accepted>>

SlidingRaceStore(th) ==
    /\ limiter = "SlidingWindowRateLimiter"
    /\ threads[th].pc = "admitted"
    /\ user_history' = SW_store(user_history, threads[th].user, clock)
    /\ accepted' = [accepted EXCEPT ![threads[th].user] = Append(@, clock)]
    /\ threads' = [threads EXCEPT ![th] = Idle]
    /\ UNCHANGED <<limiter, window_size, max_requests, min_interval,
                   last_message_time, clock, call, pre_history, pre_last, raced>>

ThrottleRaceCheck(th, u) ==
    /\ limiter = "ThrottlingRateLimiter"
    /\ threads[th].pc = "idle"
    /\ TotalLen(accepted, Users) < MaxAccepted
    /\ LET ok == TH_can_send_message(last_message_time, min_interval, u, clock)
       IN  /\ threads' = [threads EXCEPT ![th] =
                             IF ok THEN [pc |-> "admitted", user |-> u] ELSE Idle]
           /\ raced' = (raced \/ (ok /\ OtherAdmitted(th, u)))
    /\ UNCHANGED <<limiter, window_size, max_requests, user_history, min_interval,
                   last_message_time, clock, call, pre_history, pre_last, accepted>>

ThrottleRaceStore(th) ==
    /\ limiter = "ThrottlingRateLimiter"
    /\ threads[th].pc = "admitted"
    /\ last_message_time' = TH_store(last_message_time, threads[th].user, clock)
    /\ accepted' = [accepted EXCEPT ![threads[th].user] = Append(@, clock)]
    /\ threads' = [threads EXCEPT ![th] = Idle]
    /\ UNCHANGED <<limiter, window_size, max_requests, user_history, min_interval,
                   clock, call, pre_history, pre_last, raced>>

NextRace ==
    \/ RaceTick
    \/ \E th \in Threads, u \in Users : SlidingRaceCheck(th, u)
    \/ \E th \in Threads : SlidingRaceStore(th)
    \/ \E th \in Threads, u \in Users : ThrottleRaceCheck(th, u)
    \/ \E th \in Threads : ThrottleRaceStore(th)

SpecRace == Init /\ [][NextRace]_vars

\* -------------------------------------------------------- shorthands
Sliding == limiter = "SlidingWindowRateLimiter"
Throttling == limiter = "ThrottlingRateLimiter"

Last(q) == q[Len(q)]

\* The accepted timestamps of the user of the call that has just returned,
\* as they were when that call started.
AcceptedBefore ==
    IF call.name = "record_message" /\ call.ret
    THEN SubSeq(accepted[call.user], 1, Len(accepted[call.user]) - 1)
    ELSE accepted[call.user]

\* The accepted record_message calls of u whose timestamp lies in [t - window_size, t].
AcceptedInWindow(u, t) ==
    {i \in 1..Len(accepted[u]) :
        accepted[u][i] >= t - window_size /\ accepted[u][i] <= t}

\* A throttle limiter with min_interval I driven by record_message calls for
\* one user at the clock readings ts (one reading per call): the returned values.
RECURSIVE TH_run(_, _, _)
TH_run(l, I, ts) ==
    IF ts = <<>> THEN <<>>
    ELSE LET r == TH_record_message(l, I, "u", Head(ts), Head(ts))
         IN  <<r[1]>> \o TH_run(r[2], I, Tail(ts))

\* The same for a sliding-window limiter with window W and capacity N.
RECURSIVE SW_run(_, _, _, _)
SW_run(h, W, N, ts) ==
    IF ts = <<>> THEN <<>>
    ELSE LET r == SW_record_message(h, W, N, "u", Head(ts), Head(ts))
         IN  <<r[1]>> \o SW_run(r[2], W, N, Tail(ts))

\* ------------------------------------------------------------------ C1
\* C1: sliding window: for every user and every instant t, at most
\* max_requests accepted record_message calls have their stored timestamp
\* in the trailing window [t - window_size, t].
C1_WindowLimit ==
    Sliding =>
        \A u \in Users : \A t \in 0..(MaxTime + MaxWindow) :
            Cardinality(AcceptedInWindow(u, t)) <= max_requests

\* A third record_message of a user has just been accepted and fills the
\* window of capacity two, an older timestamp having expired.
C1_Witness ==
    /\ Sliding
    /\ call.name = "record_message"
    /\ call.ret
    /\ max_requests = 2
    /\ Len(accepted[call.user]) = 3
    /\ Cardinality(AcceptedInWindow(call.user, clock)) = 2

\* ------------------------------------------------------------------ C2
\* C2: throttle: any two accepted record_message calls of one user have
\* stored timestamps at least min_interval apart.
C2_MinGap ==
    Throttling =>
        \A u \in Users : \A i, j \in 1..Len(accepted[u]) :
            i < j => accepted[u][j] - accepted[u][i] >= min_interval

\* A second record_message of a user has just been accepted, exactly
\* min_interval > 0 after the first.
C2_Witness ==
    /\ Throttling
    /\ min_interval >= 1
    /\ call.name = "record_message"
    /\ call.ret
    /\ Len(accepted[call.user]) >= 2
    /\ Last(accepted[call.user]) - Last(AcceptedBefore) = min_interval

\* ------------------------------------------------------------------ C3
\* C3 as stated: a record_message for a user with no accepted call yet
\* returns True (the call at t=0 of the scenario), and after an accepted call
\* with timestamp t a call at t' returns True exactly when t' - t >= min_interval.
C3_AsStated ==
    (Throttling /\ call.name = "record_message") =>
        call.ret = (IF AcceptedBefore = <<>>
                    THEN TRUE
                    ELSE call.t1 - Last(AcceptedBefore) >= min_interval)

\* C3 amended: after an accepted record_message that stored timestamp t, the
\* next record_message of that user, reading the clock at t', returns True
\* exactly when t' - t >= min_interval; a user with no accepted call yet is
\* accepted exactly when t' - 0 >= min_interval.  With min_interval = 10 the
\* calls at 0, 5, 10 return False, False, True and the calls at 10, 15, 20
\* return True, False, True.
C3_ConsecutiveRecords ==
    /\ (Throttling /\ call.name = "record_message") =>
          call.ret = (IF AcceptedBefore = <<>>
                      THEN call.t1 >= min_interval
                      ELSE call.t1 - Last(AcceptedBefore) >= min_interval)
    /\ TH_run(EmptyDict, 10, <<0, 5, 10>>) = <<FALSE, FALSE, TRUE>>
    /\ TH_run(EmptyDict, 10, <<10, 15, 20>>) = <<TRUE, FALSE, TRUE>>
    /\ TH_run(EmptyDict, 10, <<10, 20>>) = <<TRUE, TRUE>>

\* The second of two consecutive record_message calls has just been accepted,
\* exactly min_interval > 0 after the timestamp of the first.
C3_Witness ==
    /\ Throttling
    /\ min_interval >= 1
    /\ call.name = "record_message"
    /\ call.ret
    /\ AcceptedBefore # <<>>
    /\ call.t1 - Last(AcceptedBefore) = min_interval

\* ------------------------------------------------------------------ C4
\* C4 as stated: can_send_message for a user with no history returns True,
\* whatever the configuration and the time of the call.
C4_AsStated ==
    (call.name = "can_send_message" /\ accepted[call.user] = <<>>) => call.ret

\* C4 amended: for a user with no history, the sliding-window
\* can_send_message returns True exactly when max_requests >= 1, and the
\* throttle can_send_message returns True exactly when the clock reading t
\* satisfies t - 0 >= min_interval (the missing last time defaults to 0).
C4_FreshUser ==
    (call.name = "can_send_message" /\ accepted[call.user] = <<>>) =>
        call.ret = (IF Sliding THEN max_requests >= 1 ELSE call.t1 >= min_interval)

\* can_send_message has just returned True for a user without history, in a
\* throttle limiter with min_interval > 0.
C4_Witness ==
    /\ Throttling
    /\ min_interval >= 1
    /\ call.name = "can_send_message"
    /\ accepted[call.user] = <<>>
    /\ call.ret

\* ------------------------------------------------------------------ C5
\* The case of C5: exactly max_requests calls were accepted for the user of
\* the call, all of them less than window_size before the call.
C5_AtCapacity ==
    /\ Sliding
    /\ call.name \in {"record_message", "time_until_next_allowed"}
    /\ Len(AcceptedBefore) = max_requests
    /\ \A i \in 1..Len(AcceptedBefore) : call.t1 - AcceptedBefore[i] < window_size

C6_RegainsCapacity ==
    /\ (/\ Sliding
        /\ max_requests >= 1
        /\ call.name = "record_message"
        /\ call.user \in DOMAIN pre_history
        /\ call.t1 - pre_history[call.user][1] > window_size) => call.ret
    /\ SW_run(EmptyDict, 10, 1, <<0, 3, 11>>) = <<TRUE, FALSE, TRUE>>

\* A record_message has just been accepted for a user whose history was full
\* when the call started, its earliest timestamp older than the window.
C6_Witness ==
    /\ Sliding
    /\ max_requests >= 1
    /\ call.name = "record_message"
    /\ call.user \in DOMAIN pre_history
    /\ Len(pre_history[call.user]) = max_requests
    /\ call.t1 - pre_history[call.user][1] > window_size
    /\ call.ret

\* ------------------------------------------------------------------ C7
\* C7 as stated, for the configurations with max_requests >= 1: sliding
\* window: for every user and every time t from now on,
\* time_until_next_allowed returns 0 exactly when can_send_message returns
\* True at the same t.  (With max_requests = 0 the wait is 0 and no call is
\* ever admitted.)
C7_AsStated ==
    (Sliding /\ max_requests >= 1) =>
        \A u \in Users : \A t \in clock..(MaxTime + MaxWindow) :
            (SW_time_until_next_allowed(user_history, window_size, max_requests, u, t)[1] = 0)
            <=> SW_can_send_message(user_history, window_size, max_requests, u, t)[1]

\* ------------------------------------------------------------------ C8
\* C8: throttle: for every user and every time t from now on,
\* time_until_next_allowed returns 0 exactly when can_send_message returns
\* True at the same t.
C8_ZeroWaitIffAllowed ==
    Throttling =>
        \A u \in Users : \A t \in clock..(MaxTime + MaxInterval) :
            (TH_time_until_next_allowed(last_message_time, min_interval, u, t) = 0)
            <=> TH_can_send_message(last_message_time, min_interval, u, t)

\* time_until_next_allowed has just returned a positive wait for a user with
\* a stored last time, and the wait ends within the times quantified over.
C8_Witness ==
    /\ Throttling
    /\ call.name = "time_until_next_allowed"
    /\ call.user \in DOMAIN last_message_time
    /\ call.wait > 0
    /\ ~TH_can_send_message(last_message_time, min_interval, call.user, clock)
    /\ TH_can_send_message(last_message_time, min_interval, call.user, clock + call.wait)

\* ------------------------------------------------------------------ C9
\* C9: in both limiters a record_message that returns False leaves
\* user_history and last_message_time exactly as they were before the call.
C9_RejectedChangesNothing ==
    (call.name = "record_message" /\ ~call.ret) =>
        /\ user_history = pre_history
        /\ last_message_time = pre_last

\* A sliding-window record_message has just been rejected while the other
\* user held timestamps too.
C9_Witness ==
    /\ Sliding
    /\ call.name = "record_message"
    /\ ~call.ret
    /\ max_requests >= 1
    /\ DOMAIN pre_history = Users

\* ----------------------------------------------------------------- C10
\* C10 as stated: in both limiters the state after time_until_next_allowed
\* equals the state before it.
C10_AsStated ==
    call.name = "time_until_next_allowed" =>
        /\ user_history = pre_history
        /\ last_message_time = pre_last

\* The timestamps of q that are not older than window_size at time t.
InWindow(q, t) ==
    LET Fresh(s) == s >= t - window_size
    IN  SelectSeq(q, Fresh)

\* C10 amended: time_until_next_allowed leaves last_message_time unchanged;
\* in the sliding-window limiter it leaves every other user's history
\* unchanged and removes from the queried user's history the timestamps
\* older than window_size (and only those), dropping the user's entry when
\* none is left; it adds nothing.
C10_OnlyPrunesExpired ==
    call.name = "time_until_next_allowed" =>
        /\ last_message_time = pre_last
        /\ \A v \in Users \ {call.user} :
              /\ v \in DOMAIN user_history <=> v \in DOMAIN pre_history
              /\ v \in DOMAIN pre_history => user_history[v] = pre_history[v]
        /\ LET kept == InWindow(DictGet(pre_history, call.user, <<>>), call.t1)
           IN  /\ call.user \in DOMAIN user_history <=> kept # <<>>
               /\ kept # <<>> => user_history[call.user] = kept

\* A sliding-window time_until_next_allowed has just removed one of the two
\* timestamps of the queried user and kept the other.
C10_Witness ==
    /\ Sliding
    /\ call.name = "time_until_next_allowed"
    /\ call.user \in DOMAIN pre_history
    /\ call.user \in DOMAIN user_history
    /\ Len(pre_history[call.user]) = 2
    /\ Len(user_history[call.user]) = 1

\* ----------------------------------------------------------------- C11
\* What the three methods return for user v at time t on user_history h.
SW_results(h, v, t) ==
    <<SW_can_send_message(h, window_size, max_requests, v, t)[1],
      SW_record_message(h, window_size, max_requests, v, t, t)[1],
      SW_time_until_next_allowed(h, window_size, max_requests, v, t)[1]>>

\* The same on last_message_time l.
TH_results(l, v, t) ==
    <<TH_can_send_message(l, min_interval, v, t),
      TH_record_message(l, min_interval, v, t, t)[1],
      TH_time_until_next_allowed(l, min_interval, v, t)>>

\* The entry of user v is the same in the dicts d and e.
SameEntry(d, e, v) ==
    /\ v \in DOMAIN d <=> v \in DOMAIN e
    /\ v \in DOMAIN d => d[v] = e[v]

\* C11: a call for one user leaves the stored history of every other user
\* unchanged, and with it what the three methods return for that other user
\* at any later call time.
C11_NoInterference ==
    call.name # "none" =>
        \A v \in Users \ {call.user} :
            /\ SameEntry(user_history, pre_history, v)
            /\ SameEntry(last_message_time, pre_last, v)
            /\ \A t \in clock..MaxTime :
                  /\ Sliding =>
                        SW_results(user_history, v, t) = SW_results(pre_history, v, t)
                  /\ Throttling =>
                        TH_results(last_message_time, v, t) = TH_results(pre_last, v, t)

\* A record_message has just filled the window of one user while the other
\* user holds a timestamp that has expired.
C11_Witness ==
    /\ Sliding
    /\ call.name = "record_message"
    /\ call.ret
    /\ Len(user_history[call.user]) = max_requests
    /\ \E v \in Users \ {call.user} :
          /\ v \in DOMAIN user_history
          /\ user_history[v][1] < call.t1 - window_size

\* ----------------------------------------------------------------- C12
\* Every timestamp of q is older than window_size at time t.
AllExpired(q, t) ==
    \A i \in 1..Len(q) : q[i] < t - window_size

\* C12 as stated: a user all of whose stored timestamps have expired at the
\* current time is absent from user_history.
C12_AsStated ==
    Sliding =>
        \A u \in DOMAIN user_history : ~AllExpired(user_history[u], clock)

\* C12 amended: pruning happens only inside a call for that user.  After a
\* can_send_message or time_until_next_allowed for a user made when all its
\* stored timestamps have expired, the user is absent from user_history;
\* after a record_message made then, the user holds the new timestamp only.
\* Until such a call the expired entry stays in user_history.
C12_PrunedOnQuery ==
    (/\ Sliding
     /\ call.name # "none"
     /\ call.user \in DOMAIN pre_history
     /\ AllExpired(pre_history[call.user], call.t1)) =>
        IF call.name = "record_message"
        THEN call.ret /\ user_history[call.user] = <<call.t2>>
        ELSE call.user \notin DOMAIN user_history

\* A query has just removed a user whose two timestamps had both expired.
C12_Witness ==
    /\ Sliding
    /\ call.name \in {"can_send_message", "time_until_next_allowed"}
    /\ call.user \in DOMAIN pre_history
    /\ Len(pre_history[call.user]) = 2
    /\ AllExpired(pre_history[call.user], call.t1)
    /\ call.user \notin DOMAIN user_history

\* ----------------------------------------------------------------- C13
\* C13: at every later call time, time_until_next_allowed returns a value
\* between 0 and window_size (sliding window), between 0 and min_interval
\* (throttle).
C13_WaitInRange ==
    \A u \in Users : \A t \in clock..MaxTime :
        /\ Sliding =>
              LET d == SW_time_until_next_allowed(user_history, window_size,
                                                  max_requests, u, t)[1]
              IN  0 <= d /\ d <= window_size
        /\ Throttling =>
              LET d == TH_time_until_next_allowed(last_message_time, min_interval, u, t)
              IN  0 <= d /\ d <= min_interval

\* time_until_next_allowed has just returned a wait strictly between 0 and
\* window_size, some time after the window was filled.
C13_Witness ==
    /\ Sliding
    /\ call.name = "time_until_next_allowed"
    /\ 0 < call.wait
    /\ call.wait < window_size
    /\ call.t1 > user_history[call.user][1]

\* ----------------------------------------------------------------- C14
\* C14 as stated: when time_until_next_allowed returns d > 0 for a user now,
\* can_send_message for that user returns False at every time in
\* [now, now + d) and True at now + d (nothing being recorded in between).
C14_AsStated ==
    Sliding =>
        \A u \in Users :
            LET d == SW_time_until_next_allowed(user_history, window_size,
                                                max_requests, u, clock)[1]
            IN  d > 0 =>
                  /\ \A t \in clock..(clock + d - 1) :
                        ~SW_can_send_message(user_history, window_size,
                                             max_requests, u, t)[1]
                  /\ SW_can_send_message(user_history, window_size,
                                         max_requests, u, clock + d)[1]

\* ----------------------------------------------------------------- C15
\* user_history h with everything removed that queries for every user at
\* time t would remove.
RECURSIVE CleanAll(_, _, _)
CleanAll(h, us, t) ==
    IF us = {} THEN h
    ELSE LET v == CHOOSE x \in us : TRUE
         IN  CleanAll(cleanup_window(h, window_size, v, t), us \ {v}, t)

Pruned(h, t) == CleanAll(h, DOMAIN h, t)

\* C15: the pruning done by queries is not observable.  Two call sequences
\* that differ only by extra can_send_message / time_until_next_allowed calls
\* keep user_history equal up to pruning (Pruned(h1, now) = Pruned(h2, now)),
\* and states equal up to pruning give the same results, because in every
\* reachable state:
\*  - an extra query for any user changes nothing up to pruning, and running
\*    the cleanup twice is the same as running it once;
\*  - pruning at an earlier time and then now is the same as pruning now;
\*  - each method returns for every user the same value on the fully pruned
\*    state as on the state itself, and record_message leaves the two equal
\*    up to pruning.
C15_PruningUnobservable ==
    Sliding =>
        LET h   == user_history
            now == Pruned(h, clock)
        IN  /\ \A u \in Users :
                  LET hq == SW_can_send_message(h, window_size, max_requests, u, clock)[2]
                  IN  /\ SW_time_until_next_allowed(h, window_size, max_requests,
                                                    u, clock)[2] = hq
                      /\ cleanup_window(hq, window_size, u, clock) = hq
                      /\ Pruned(hq, clock) = now
            /\ \A hp \in {Pruned(h, t0) : t0 \in 0..clock} \ {h} :
                  Pruned(hp, clock) = now
            /\ now # h =>
                  \A u \in Users :
                      /\ SW_results(now, u, clock) = SW_results(h, u, clock)
                      /\ \A d \in 0..MaxDrift :
                            Pruned(SW_record_message(now, window_size, max_requests,
                                                     u, clock, clock + d)[2], clock)
                            = Pruned(SW_record_message(h, window_size, max_requests,
                                                       u, clock, clock + d)[2], clock)

\* A can_send_message has just removed an expired timestamp of its user and
\* kept a newer one.
C15_Witness ==
    /\ Sliding
    /\ call.name = "can_send_message"
    /\ call.user \in DOMAIN user_history
    /\ user_history[call.user] # pre_history[call.user]

\* ----------------------------------------------------------------- C16
\* C16: inside every sliding-window call, right after the cleanup pass for
\* its user at the clock reading now: every timestamp left for the user lies
\* in [now - window_size, now]; the timestamps removed are exactly those older
\* than now - window_size; the user is in the dict exactly when a timestamp is
\* left, and no user of the dict has an empty sequence.  This is the state a
\* query returns with.
C16_AfterCleanup ==
    (Sliding /\ call.name # "none") =>
        LET now    == call.t1
            before == DictGet(pre_history, call.user, <<>>)
            h1     == cleanup_window(pre_history, window_size, call.user, now)
            after  == DictGet(h1, call.user, <<>>)
        IN  /\ \A i \in 1..Len(after) :
                  now - window_size <= after[i] /\ after[i] <= now
            /\ after = InWindow(before, now)
            /\ call.user \in DOMAIN h1 <=> after # <<>>
            /\ \A v \in DOMAIN h1 : h1[v] # <<>>
            /\ (call.name # "record_message" \/ ~call.ret) => user_history = h1

\* A record_message has just run the cleanup on two timestamps: the first had
\* expired, the second was exactly window_size old and was kept.
C16_Witness ==
    /\ Sliding
    /\ call.name = "record_message"
    /\ call.user \in DOMAIN pre_history
    /\ Len(pre_history[call.user]) = 2
    /\ pre_history[call.user][1] < call.t1 - window_size
    /\ pre_history[call.user][2] = call.t1 - window_size
    /\ Len(user_history[call.user]) = 2

\* ----------------------------------------------------------------- C17
\* The limit of the limiter holds of the accepted calls: at most max_requests
\* timestamps in any trailing window; any two timestamps of a user at least
\* min_interval apart.
LimitKept ==
    /\ Sliding =>
          \A u \in Users : \A t \in 0..(MaxTime + MaxWindow) :
              Cardinality(AcceptedInWindow(u, t)) <= max_requests
    /\ Throttling =>
          \A u \in Users : \A i, j \in 1..Len(accepted[u]) :
              i < j => accepted[u][j] - accepted[u][i] >= min_interval

\* C17: with two unserialized callers the limit can be exceeded only after
\* two admission checks for one user ran before either store; as long as the
\* check and the store of every call run as one unit per user, the limit is
\* kept.  (The witness is the reachable state of the race.)
C17_LimitKeptUnlessRaced ==
    ~raced => LimitKept

\* Both callers have returned from record_message, their checks for the same
\* user having both run before either store; every call accepted for that
\* user so far returned True, and the max_requests + 1 timestamps they stored
\* all lie in the current window.
C17_Witness ==
    /\ Sliding
    /\ raced
    /\ \A th \in Threads : threads[th] = Idle
    /\ \E u \in Users :
          /\ Len(accepted[u]) = max_requests + 1
          /\ Cardinality(AcceptedInWindow(u, clock)) = max_requests + 1

\* The same race in the throttle limiter: both callers have returned True
\* for one user at timestamps closer than min_interval.
C17_ThrottleRace ==
    /\ Throttling
    /\ raced
    /\ \A th \in Threads : threads[th] = Idle
    /\ \E u \in Users :
          /\ Len(accepted[u]) = 2
          /\ accepted[u][2] - accepted[u][1] < min_interval

\* ----------------------------------------------------------------- C18
\* C18 as stated: the timestamp an accepted record_message stores is the
\* clock reading its admission check used.
C18_AsStated ==
    (call.name = "record_message" /\ call.ret) =>
        /\ Sliding => Last(user_history[call.user]) = call.t1
        /\ Throttling => last_message_time[call.user] = call.t1

\* ----------------------------------------------------------------- C19
\* C19: every stored sequence is ordered oldest first, also when the clock
\* advances between the check and the append of record_message; so a cleanup
\* pass at any later call time leaves no expired timestamp behind.
C19_OldestFirst ==
    Sliding =>
        \A u \in DOMAIN user_history :
            /\ \A i, j \in 1..Len(user_history[u]) :
                  i < j => user_history[u][i] <= user_history[u][j]
            /\ \A t \in clock..MaxTime :
                  LET q == DictGet(cleanup_window(user_history, window_size, u, t),
                                   u, <<>>)
                  IN  \A i \in 1..Len(q) : q[i] >= t - window_size

\* A record_message during which the clock advanced has just appended a
\* timestamp later than the one already stored.
C19_Witness ==
    /\ Sliding
    /\ call.name = "record_message"
    /\ call.ret
    /\ call.t2 > call.t1
    /\ Len(user_history[call.user]) = 2
    /\ user_history[call.user][1] < user_history[call.user][2]

\* ----------------------------------------------------------------- C20
\* C20: every user of user_history holds at least 1 and at most max_requests
\* timestamps; with max_requests = 0 the dict stays empty and every
\* record_message is rejected.
C20_LengthBounds ==
    Sliding =>
        /\ \A u \in DOMAIN user_history :
              1 <= Len(user_history[u]) /\ Len(user_history[u]) <= max_requests
        /\ max_requests = 0 =>
              /\ user_history = EmptyDict
              /\ call.name = "record_message" => ~call.ret

\* A record_message has just been rejected for a user holding max_requests = 2
\* timestamps.
C20_Witness ==
    /\ Sliding
    /\ max_requests = 2
    /\ call.name = "record_message"
    /\ ~call.ret
    /\ Len(user_history[call.user]) = 2

====
